---- MODULE Spec2Model ----
(***************************************************************************)
(* RustBurn GUI (rustburn-gui/src/main.rs): the controller's update loop,  *)
(* the background-operation threads it spawns and the progress channel     *)
(* between them.                                                           *)
(*                                                                         *)
(* One frame of eframe's update() is two steps: Poll (the try_recv loop,   *)
(* lines 99-123) and one Render* step (the widget handlers of lines        *)
(* 133-138 with at most one click per frame).  Operation threads step      *)
(* between any two controller steps.                                       *)
(***************************************************************************)
EXTENDS Integers, Sequences, FiniteSets, TLC

\* ------------------------------------------------------------------ bounds
\* Number of operation threads the model lets a run spawn.
MaxInvocations == 2
\* Number of option-panel edits the model lets a run perform.
MaxEdits == 2
\* Number of operation threads in runs that edit the options panel.
MaxOptionInvocations == 1
\* Number of non-terminal events of an operation in FoldSpec.
MaxFoldLen == 3

\* ------------------------------------------------------------------ values
\* Option<JoinHandle> / Option<Receiver>: 0 is None, i > 0 is Some(handle of
\* invocation i).
NoHandle == 0
Invocations == 1..MaxInvocations

\* Option<String> None for selected_device.
NoDevice == "None"

\* AppStatus values; msg is the payload of Error(String), "" otherwise.
St(tag) == [tag |-> tag, msg |-> ""]
StError(m) == [tag |-> "Error", msg |-> m]
RunningTags ==
  {"Burning", "CreatingWinIso", "Verifying", "SettingUpBootable", "Ejecting", "Erasing"}

\* UiProgress values; msg is the String payload, p the f32 payload in percent.
Ev(type) == [type |-> type, msg |-> "", p |-> 0]
EvLog(m) == [type |-> "Log", msg |-> m, p |-> 0]
EvError(m) == [type |-> "Error", msg |-> m, p |-> 0]
EvWriting(p) == [type |-> "Writing", msg |-> "", p |-> p]
EvVerifying(p) == [type |-> "Verifying", msg |-> "", p |-> p]
IsTerminal(e) == e.type \in {"Done", "Error"}

\* A line of the log panel: format!("ERROR: {}", e) prepends a prefix.
LogLine(prefix, text) == [prefix |-> prefix, text |-> text]

\* UsbDevice as reported by a scan.
Dev(device, vendor, model, size) ==
  [device |-> device, vendor |-> vendor, model |-> model, size |-> size]
SdbDev == Dev("/dev/sdb", "Kingston", "DT100", 16)

\* Results of RustBurn::scan_devices(): Ok(list) or Err(e).
ScanOk(list) == [ok |-> TRUE, list |-> list, err |-> ""]
ScanErr(e) == [ok |-> FALSE, list |-> <<>>, err |-> e]
ScanResults ==
  {ScanOk(<<SdbDev>>), ScanErr("scan failed")}

\* Results of the rfd file dialogs: "" is a cancelled dialog (None).
Cancelled == ""
IsoDialogResults == {Cancelled, "linux.iso"}
FolderDialogResults == {Cancelled, "win_src"}
SaveDialogResults == {Cancelled, "win.iso"}

\* Event sequences an operation of rustburn_core produces: in order, with
\* exactly one terminal event, which is the last.
BurnScripts ==
  { <<Ev("StartingBurn"), EvWriting(50), Ev("Done")>>,
    <<Ev("StartingBurn"), EvError("device removed")>> }
WinIsoScripts ==
  { <<EvLog("packing"), Ev("Done")>> }

\* The events an operation may emit before its terminal event, and the
\* sequences of at most MaxFoldLen of them followed by a terminal event.
NonTerminalEvents ==
  { EvLog("note"), Ev("StartingBurn"), EvWriting(50), EvWriting(100),
    Ev("StartingVerification"), EvVerifying(100), Ev("StartingBootableSetup"),
    Ev("StartingCreateWinIso"), Ev("StartingEject"), Ev("StartingErase") }
TerminalEvents == { Ev("Done"), EvError("device removed") }
FoldScripts ==
  UNION { { body \o <<t>> : body \in [1..n -> NonTerminalEvents], t \in TerminalEvents } :
          n \in 0..MaxFoldLen }

\* BurnOptions::default().
DefaultBurnOptions ==
  [ iso_path |-> "", device_path |-> "", threads |-> 4, make_bootable |-> FALSE,
    boot_type |-> "Hybrid", verify |-> FALSE, block_size |-> 1024 * 1024 ]

\* What a spawned closure owns: the cloned BurnOptions of a burn, or the two
\* paths of a Windows-ISO creation.
BurnConfig(options) == [kind |-> "burn", options |-> options, source |-> "", output |-> ""]
WinIsoConfig(source, output) ==
  [kind |-> "win_iso", options |-> DefaultBurnOptions, source |-> source, output |-> output]
NoConfig == [kind |-> "none", options |-> DefaultBurnOptions, source |-> "", output |-> ""]

\* Values the option widgets offer.
ThreadChoices == {1, 16}
BootTypeChoices == {"UEFI", "Legacy", "Hybrid"}
BlockSizeChoices == {512 * 1024, 1024 * 1024, 2048 * 1024, 4096 * 1024}

\* ------------------------------------------------------------------ state
VARIABLES
  status,            \* RustBurnApp.status
  burn_progress,     \* RustBurnApp.burn_progress, in percent
  progress_receiver, \* RustBurnApp.progress_receiver
  operation_thread,  \* RustBurnApp.operation_thread
  logs,              \* RustBurnApp.logs
  devices,           \* RustBurnApp.devices
  selected_device,   \* RustBurnApp.selected_device
  burn_options,      \* RustBurnApp.burn_options
  pc,                \* the controller's position in update(): "poll" or "render"
  thread_state,      \* per invocation: "unborn", "running", "finished", "panicked"
  script,            \* per invocation: the events its operation emits
  sent,              \* per invocation: how many of them it has sent
  config,            \* per invocation: the arguments moved into the thread
  chan,              \* per invocation: the channel's queue
  folded,            \* per invocation: the events update() has folded (history)
  edits              \* option-panel edits performed so far

ctl == <<status, burn_progress, progress_receiver, operation_thread, logs>>
sel == <<devices, selected_device, burn_options, edits>>
thr == <<thread_state, script, sent, config>>
vars == <<ctl, sel, pc, thr, chan, folded>>

\* RustBurnApp::new
Init ==
  /\ status = St("Idle")
  /\ burn_progress = 0
  /\ progress_receiver = NoHandle
  /\ operation_thread = NoHandle
  /\ logs = <<>>
  /\ devices = <<>>
  /\ selected_device = NoDevice
  /\ burn_options = DefaultBurnOptions
  /\ pc = "poll"
  /\ thread_state = [i \in Invocations |-> "unborn"]
  /\ script = [i \in Invocations |-> <<>>]
  /\ sent = [i \in Invocations |-> 0]
  /\ config = [i \in Invocations |-> NoConfig]
  /\ chan = [i \in Invocations |-> <<>>]
  /\ folded = [i \in Invocations |-> <<>>]
  /\ edits = 0

\* ------------------------------------------------------------- controller
\* The accumulator of the event loop: the fields the match arms assign.
Acc(st, prog, lg, th) ==
  [status |-> st, burn_progress |-> prog, logs |-> lg, operation_thread |-> th]

\* FoldEvent with the StartingVerification arm setting Burning.
FoldEventWrongPhase(acc, e) ==
  CASE e.type = "Log" -> [acc EXCEPT !.logs = Append(@, LogLine("", e.msg))]
    [] e.type = "StartingBurn" -> [acc EXCEPT !.status = St("Burning")]
    [] e.type = "Writing" -> [acc EXCEPT !.burn_progress = e.p]
    [] e.type = "StartingVerification" -> [acc EXCEPT !.status = St("Burning")]
    [] e.type = "Verifying" -> [acc EXCEPT !.burn_progress = e.p]
    [] e.type = "StartingBootableSetup" -> [acc EXCEPT !.status = St("SettingUpBootable")]
    [] e.type = "StartingCreateWinIso" -> [acc EXCEPT !.status = St("CreatingWinIso")]
    [] e.type = "StartingEject" -> [acc EXCEPT !.status = St("Ejecting")]
    [] e.type = "StartingErase" -> [acc EXCEPT !.status = St("Erasing")]
    [] e.type = "Done" ->
         [acc EXCEPT !.status = St("Done"), !.operation_thread = NoHandle]
    [] e.type = "Error" ->
         [acc EXCEPT !.logs = Append(@, LogLine("ERROR: ", e.msg)),
                     !.status = StError(e.msg),
                     !.operation_thread = NoHandle]

\* FoldEvent with the Writing arm also discarding the thread handle.
FoldEventEarlyClear(acc, e) ==
  CASE e.type = "Log" -> [acc EXCEPT !.logs = Append(@, LogLine("", e.msg))]
    [] e.type = "StartingBurn" -> [acc EXCEPT !.status = St("Burning")]
    [] e.type = "Writing" ->
         [acc EXCEPT !.burn_progress = e.p, !.operation_thread = NoHandle]
    [] e.type = "StartingVerification" -> [acc EXCEPT !.status = St("Verifying")]
    [] e.type = "Verifying" -> [acc EXCEPT !.burn_progress = e.p]
    [] e.type = "StartingBootableSetup" -> [acc EXCEPT !.status = St("SettingUpBootable")]
    [] e.type = "StartingCreateWinIso" -> [acc EXCEPT !.status = St("CreatingWinIso")]
    [] e.type = "StartingEject" -> [acc EXCEPT !.status = St("Ejecting")]
    [] e.type = "StartingErase" -> [acc EXCEPT !.status = St("Erasing")]
    [] e.type = "Done" ->
         [acc EXCEPT !.status = St("Done"), !.operation_thread = NoHandle]
    [] e.type = "Error" ->
         [acc EXCEPT !.logs = Append(@, LogLine("ERROR: ", e.msg)),
                     !.status = StError(e.msg),
                     !.operation_thread = NoHandle]

\* FoldEvent with the Verifying(p) arm also setting the status.
FoldEventProgressSetsPhase(acc, e) ==
  CASE e.type = "Log" -> [acc EXCEPT !.logs = Append(@, LogLine("", e.msg))]
    [] e.type = "StartingBurn" -> [acc EXCEPT !.status = St("Burning")]
    [] e.type = "Writing" -> [acc EXCEPT !.burn_progress = e.p]
    [] e.type = "StartingVerification" -> [acc EXCEPT !.status = St("Verifying")]
    [] e.type = "Verifying" ->
         [acc EXCEPT !.burn_progress = e.p, !.status = St("Verifying")]
    [] e.type = "StartingBootableSetup" -> [acc EXCEPT !.status = St("SettingUpBootable")]
    [] e.type = "StartingCreateWinIso" -> [acc EXCEPT !.status = St("CreatingWinIso")]
    [] e.type = "StartingEject" -> [acc EXCEPT !.status = St("Ejecting")]
    [] e.type = "StartingErase" -> [acc EXCEPT !.status = St("Erasing")]
    [] e.type = "Done" ->
         [acc EXCEPT !.status = St("Done"), !.operation_thread = NoHandle]
    [] e.type = "Error" ->
         [acc EXCEPT !.logs = Append(@, LogLine("ERROR: ", e.msg)),
                     !.status = StError(e.msg),
                     !.operation_thread = NoHandle]

\* FoldEvent with the progress arms storing a percentage instead of the
\* fraction (here: the hundredths scaled once more).
FoldEventProgressScaled(acc, e) ==
  CASE e.type = "Log" -> [acc EXCEPT !.logs = Append(@, LogLine("", e.msg))]
    [] e.type = "StartingBurn" -> [acc EXCEPT !.status = St("Burning")]
    [] e.type = "Writing" -> [acc EXCEPT !.burn_progress = e.p * 100]
    [] e.type = "StartingVerification" -> [acc EXCEPT !.status = St("Verifying")]
    [] e.type = "Verifying" -> [acc EXCEPT !.burn_progress = e.p * 100]
    [] e.type = "StartingBootableSetup" -> [acc EXCEPT !.status = St("SettingUpBootable")]
    [] e.type = "StartingCreateWinIso" -> [acc EXCEPT !.status = St("CreatingWinIso")]
    [] e.type = "StartingEject" -> [acc EXCEPT !.status = St("Ejecting")]
    [] e.type = "StartingErase" -> [acc EXCEPT !.status = St("Erasing")]
    [] e.type = "Done" ->
         [acc EXCEPT !.status = St("Done"), !.operation_thread = NoHandle]
    [] e.type = "Error" ->
         [acc EXCEPT !.logs = Append(@, LogLine("ERROR: ", e.msg)),
                     !.status = StError(e.msg),
                     !.operation_thread = NoHandle]

\* One arm of `match update` (lines 102-121).
FoldEvent(acc, e) ==
  CASE e.type = "Log" -> [acc EXCEPT !.logs = Append(@, LogLine("", e.msg))]
    [] e.type = "StartingBurn" -> [acc EXCEPT !.status = St("Burning")]
    [] e.type = "Writing" -> [acc EXCEPT !.burn_progress = e.p]
    [] e.type = "StartingVerification" -> [acc EXCEPT !.status = St("Verifying")]
    [] e.type = "Verifying" -> [acc EXCEPT !.burn_progress = e.p]
    [] e.type = "StartingBootableSetup" -> [acc EXCEPT !.status = St("SettingUpBootable")]
    [] e.type = "StartingCreateWinIso" -> [acc EXCEPT !.status = St("CreatingWinIso")]
    [] e.type = "StartingEject" -> [acc EXCEPT !.status = St("Ejecting")]
    [] e.type = "StartingErase" -> [acc EXCEPT !.status = St("Erasing")]
    [] e.type = "Done" ->
         [acc EXCEPT !.status = St("Done"), !.operation_thread = NoHandle]
    [] e.type = "Error" ->
         [acc EXCEPT !.logs = Append(@, LogLine("ERROR: ", e.msg)),
                     !.status = StError(e.msg),
                     !.operation_thread = NoHandle]

\* `while let Ok(update) = rx.try_recv()` over the events queued at that time.
RECURSIVE FoldAll(_, _)
FoldAll(acc, q) ==
  IF q = <<>> THEN acc ELSE FoldAll(FoldEvent(acc, Head(q)), Tail(q))

\* RustBurnApp::is_idle (lines 572-577).
is_idle == status.tag \in {"Idle", "Done", "Error"}

\* The toolbar's local `is_idle` (lines 181-182).
toolbar_is_idle == status = St("Idle") \/ status.tag = "Error"

\* The toolbar's `can_burn` (lines 208-209).
can_burn == selected_device # NoDevice /\ burn_options.iso_path # ""

\* Poll reading the queue without taking the events out of it.
PollKeepsQueue ==
  /\ pc = "poll"
  /\ pc' = "render"
  /\ IF progress_receiver = NoHandle
       THEN UNCHANGED <<ctl, chan, folded>>
       ELSE LET rx == progress_receiver
                acc == FoldAll(Acc(status, burn_progress, logs, operation_thread), chan[rx])
            IN /\ status' = acc.status
               /\ burn_progress' = acc.burn_progress
               /\ logs' = acc.logs
               /\ operation_thread' = acc.operation_thread
               /\ UNCHANGED progress_receiver
               /\ chan' = chan
               /\ folded' = [folded EXCEPT ![rx] = @ \o chan[rx]]
  /\ UNCHANGED <<sel, thr>>

\* Poll with `if let` in place of `while let`: one event per frame.
PollOneEvent ==
  /\ pc = "poll"
  /\ pc' = "render"
  /\ IF progress_receiver = NoHandle \/ chan[progress_receiver] = <<>>
       THEN UNCHANGED <<ctl, chan, folded>>
       ELSE LET rx == progress_receiver
                acc == FoldEvent(Acc(status, burn_progress, logs, operation_thread),
                                 Head(chan[rx]))
            IN /\ status' = acc.status
               /\ burn_progress' = acc.burn_progress
               /\ logs' = acc.logs
               /\ operation_thread' = acc.operation_thread
               /\ UNCHANGED progress_receiver
               /\ chan' = [chan EXCEPT ![rx] = Tail(@)]
               /\ folded' = [folded EXCEPT ![rx] = Append(@, Head(chan[rx]))]
  /\ UNCHANGED <<sel, thr>>

\* First part of update(): drain the receiver, if there is one.
Poll ==
  /\ pc = "poll"
  /\ pc' = "render"
  /\ IF progress_receiver = NoHandle
       THEN UNCHANGED <<ctl, chan, folded>>
       ELSE LET rx == progress_receiver
                acc == FoldAll(Acc(status, burn_progress, logs, operation_thread), chan[rx])
            IN /\ status' = acc.status
               /\ burn_progress' = acc.burn_progress
               /\ logs' = acc.logs
               /\ operation_thread' = acc.operation_thread
               /\ UNCHANGED progress_receiver
               /\ chan' = [chan EXCEPT ![rx] = <<>>]
               /\ folded' = [folded EXCEPT ![rx] = @ \o chan[rx]]
  /\ UNCHANGED <<sel, thr>>

\* The frame's handlers are done; the next update() starts with the poll.
EndFrame == pc = "render" /\ pc' = "poll"

\* scan_devices reverting to Idle whatever the outcome.
scan_devices_always_idle(r) ==
  /\ devices' = r.list
  /\ status' = St("Idle")
  /\ UNCHANGED <<burn_progress, progress_receiver, operation_thread, logs>>
  /\ UNCHANGED <<selected_device, burn_options, edits, thr, chan, folded>>

\* RustBurnApp::scan_devices with the result r of RustBurn::scan_devices().
scan_devices(r) ==
  /\ devices' = r.list
  /\ status' = IF r.ok THEN St("Idle") ELSE StError(r.err)
  /\ UNCHANGED <<burn_progress, progress_receiver, operation_thread, logs>>
  /\ UNCHANGED <<selected_device, burn_options, edits, thr, chan, folded>>

\* RustBurnApp::select_iso_file with the dialog's result.
select_iso_file(path) ==
  /\ burn_options' =
       IF path # Cancelled THEN [burn_options EXCEPT !.iso_path = path] ELSE burn_options
  /\ UNCHANGED <<ctl, devices, selected_device, edits, thr, chan, folded>>

\* The id of the next thread::spawn.
NextId == 1 + Cardinality({i \in Invocations : thread_state[i] # "unborn"})

\* mpsc::channel() + thread::spawn: invocation i starts running script s with
\* cfg moved into it; the receiver held so far is dropped with what it queued.
Spawn(i, cfg, s) ==
  /\ thread_state' = [thread_state EXCEPT ![i] = "running"]
  /\ script' = [script EXCEPT ![i] = s]
  /\ config' = [config EXCEPT ![i] = cfg]
  /\ chan' = [j \in Invocations |-> IF j = progress_receiver THEN <<>> ELSE chan[j]]
  /\ UNCHANGED <<sent, folded>>

\* start_burn cloning the options before it stores the device path in them.
start_burn_clone_first(s) ==
  IF selected_device # NoDevice
    THEN LET options == [burn_options EXCEPT !.device_path = selected_device]
         IN /\ burn_options' = options
            /\ progress_receiver' = NextId
            /\ operation_thread' = NextId
            /\ Spawn(NextId, BurnConfig(burn_options), s)
            /\ status' = St("Burning")
            /\ burn_progress' = 0
            /\ UNCHANGED <<logs, devices, selected_device, edits>>
    ELSE UNCHANGED <<ctl, sel, thr, chan, folded>>

\* RustBurnApp::start_burn; s is what RustBurn::burn_iso will emit.
start_burn(s) ==
  IF selected_device # NoDevice
    THEN LET options == [burn_options EXCEPT !.device_path = selected_device]
         IN /\ burn_options' = options
            /\ progress_receiver' = NextId
            /\ operation_thread' = NextId
            /\ Spawn(NextId, BurnConfig(options), s)
            /\ status' = St("Burning")
            /\ burn_progress' = 0
            /\ UNCHANGED <<logs, devices, selected_device, edits>>
    ELSE UNCHANGED <<ctl, sel, thr, chan, folded>>

\* start_create_win_iso keeping a receiver it already holds.
start_create_win_iso_keeps_receiver(source, output, s) ==
  IF source # Cancelled /\ output # Cancelled
    THEN /\ progress_receiver' =
              IF progress_receiver # NoHandle THEN progress_receiver ELSE NextId
         /\ operation_thread' = NextId
         /\ thread_state' = [thread_state EXCEPT ![NextId] = "running"]
         /\ script' = [script EXCEPT ![NextId] = s]
         /\ config' = [config EXCEPT ![NextId] = WinIsoConfig(source, output)]
         /\ status' = St("CreatingWinIso")
         /\ UNCHANGED <<burn_progress, logs, sel, sent, chan, folded>>
    ELSE UNCHANGED <<ctl, sel, thr, chan, folded>>

\* start_create_win_iso setting the status before it looks at the dialogs'
\* results.
start_create_win_iso_status_first(source, output, s) ==
  IF source # Cancelled /\ output # Cancelled
    THEN /\ progress_receiver' = NextId
         /\ operation_thread' = NextId
         /\ Spawn(NextId, WinIsoConfig(source, output), s)
         /\ status' = St("CreatingWinIso")
         /\ UNCHANGED <<burn_progress, logs, sel>>
    ELSE /\ status' = St("CreatingWinIso")
         /\ UNCHANGED <<burn_progress, progress_receiver, operation_thread, logs>>
         /\ UNCHANGED <<sel, thr, chan, folded>>

\* RustBurnApp::start_create_win_iso with the two dialogs' results.
start_create_win_iso(source, output, s) ==
  IF source # Cancelled /\ output # Cancelled
    THEN /\ progress_receiver' = NextId
         /\ operation_thread' = NextId
         /\ Spawn(NextId, WinIsoConfig(source, output), s)
         /\ status' = St("CreatingWinIso")
         /\ UNCHANGED <<burn_progress, logs, sel>>
    ELSE UNCHANGED <<ctl, sel, thr, chan, folded>>

\* A frame without a click.
RenderNoInput ==
  /\ EndFrame
  /\ UNCHANGED <<ctl, sel, thr, chan, folded>>

\* File > Scan Devices (lines 154-156): not gated on the status.
RenderMenuScan ==
  /\ EndFrame
  /\ \E r \in ScanResults : scan_devices(r)

\* File > Select ISO... (lines 157-159).
RenderMenuSelectIso ==
  /\ EndFrame
  /\ \E path \in IsoDialogResults : select_iso_file(path)

\* Toolbar: scan (lines 183-189).
RenderToolbarScan ==
  /\ EndFrame
  /\ toolbar_is_idle
  /\ \E r \in ScanResults : scan_devices(r)

\* Toolbar: select ISO (lines 191-197).
RenderToolbarSelectIso ==
  /\ EndFrame
  /\ toolbar_is_idle
  /\ \E path \in IsoDialogResults : select_iso_file(path)

\* The clear button also resetting the status.
RenderToolbarClearResetsStatus ==
  /\ EndFrame
  /\ toolbar_is_idle
  /\ burn_options' = [burn_options EXCEPT !.iso_path = ""]
  /\ selected_device' = NoDevice
  /\ devices' = <<>>
  /\ status' = St("Idle")
  /\ UNCHANGED <<burn_progress, progress_receiver, operation_thread, logs>>
  /\ UNCHANGED <<edits, thr, chan, folded>>

\* Toolbar: clear selections (lines 198-206).
RenderToolbarClear ==
  /\ EndFrame
  /\ toolbar_is_idle
  /\ burn_options' = [burn_options EXCEPT !.iso_path = ""]
  /\ selected_device' = NoDevice
  /\ devices' = <<>>
  /\ UNCHANGED <<ctl, edits, thr, chan, folded>>

\* Toolbar: burn (lines 208-219).
RenderToolbarBurn ==
  /\ EndFrame
  /\ can_burn /\ toolbar_is_idle
  /\ NextId <= MaxInvocations
  /\ \E s \in BurnScripts : start_burn(s)

\* The stop button giving up the running operation.
RenderToolbarStopAborts ==
  /\ EndFrame
  /\ ~toolbar_is_idle
  /\ status' = St("Idle")
  /\ progress_receiver' = NoHandle
  /\ operation_thread' = NoHandle
  /\ UNCHANGED <<burn_progress, logs, sel, thr, chan, folded>>

\* Toolbar: stop (lines 220-226): the handler is empty.
RenderToolbarStop ==
  /\ EndFrame
  /\ ~toolbar_is_idle
  /\ UNCHANGED <<ctl, sel, thr, chan, folded>>

\* Toolbar: create Windows ISO (lines 228-234).
RenderToolbarWinIso ==
  /\ EndFrame
  /\ toolbar_is_idle
  /\ NextId <= MaxInvocations
  /\ \E source \in FolderDialogResults, output \in SaveDialogResults, s \in WinIsoScripts :
       start_create_win_iso(source, output, s)

\* An edit of the options panel replaces burn_options by o.
EditOptions(o) ==
  /\ edits < MaxEdits
  /\ edits' = edits + 1
  /\ burn_options' = o
  /\ UNCHANGED <<ctl, devices, selected_device, thr, chan, folded>>

\* Options: threads slider (line 248).
RenderEditThreads ==
  /\ EndFrame
  /\ \E n \in ThreadChoices \ {burn_options.threads} :
       EditOptions([burn_options EXCEPT !.threads = n])

\* Options: "Make bootable" checkbox (lines 254-261).
RenderEditMakeBootable ==
  /\ EndFrame
  /\ LET checked == ~burn_options.make_bootable
     IN EditOptions([burn_options EXCEPT
                       !.make_bootable = checked,
                       !.boot_type = IF ~checked THEN "Hybrid" ELSE @])

\* Options: boot type combo box (lines 264-284), enabled when bootable.
RenderEditBootType ==
  /\ EndFrame
  /\ burn_options.make_bootable
  /\ \E b \in BootTypeChoices \ {burn_options.boot_type} :
       EditOptions([burn_options EXCEPT !.boot_type = b])

\* Options: "Verify after burn" checkbox (line 296).
RenderEditVerify ==
  /\ EndFrame
  /\ EditOptions([burn_options EXCEPT !.verify = ~@])

\* Options: block size combo box (lines 302-325).
RenderEditBlockSize ==
  /\ EndFrame
  /\ \E b \in BlockSizeChoices \ {burn_options.block_size} :
       EditOptions([burn_options EXCEPT !.block_size = b])

\* Central panel: click on a listed device (lines 450-462).
RenderSelectDevice ==
  /\ EndFrame
  /\ \E k \in 1..Len(devices) :
       /\ selected_device' = devices[k].device
       /\ UNCHANGED <<ctl, devices, burn_options, edits, thr, chan, folded>>

\* ----------------------------------------------------------------- threads
\* The operation thread of invocation i sends its next event; the send
\* fails when the receiver is gone.  The thread returns after its terminal
\* event.
ThreadSend(i) ==
  /\ thread_state[i] = "running"
  /\ sent[i] < Len(script[i])
  /\ LET e == script[i][sent[i] + 1]
     IN /\ sent' = [sent EXCEPT ![i] = @ + 1]
        /\ chan' = IF progress_receiver = i
                     THEN [chan EXCEPT ![i] = Append(@, e)]
                     ELSE chan
        /\ thread_state' =
             IF IsTerminal(e) THEN [thread_state EXCEPT ![i] = "finished"] ELSE thread_state
  /\ UNCHANGED <<ctl, sel, pc, script, config, folded>>

\* The operation thread of invocation i panics: it ends and drops its sender
\* without a terminal event.
ThreadPanic(i) ==
  /\ thread_state[i] = "running"
  /\ thread_state' = [thread_state EXCEPT ![i] = "panicked"]
  /\ UNCHANGED <<ctl, sel, pc, script, sent, config, chan, folded>>

\* The controller's steps other than the options panel.
Controller ==
  \/ Poll
  \/ RenderNoInput
  \/ RenderMenuScan
  \/ RenderMenuSelectIso
  \/ RenderToolbarScan
  \/ RenderToolbarSelectIso
  \/ RenderToolbarClear
  \/ RenderToolbarBurn
  \/ RenderToolbarStop
  \/ RenderToolbarWinIso
  \/ RenderSelectDevice

\* The options panel (lines 240-328).
OptionsPanel ==
  \/ RenderEditThreads
  \/ RenderEditMakeBootable
  \/ RenderEditBootType
  \/ RenderEditVerify
  \/ RenderEditBlockSize

Threads ==
  \/ \E i \in Invocations : ThreadSend(i)
  \/ \E i \in Invocations : ThreadPanic(i)

\* The dispatch subsystem: every widget but the options panel, and the threads.
Next == Controller \/ Threads

Spec == Init /\ [][Next]_vars

\* The same with the options panel, in runs of MaxOptionInvocations threads.
NextOptions ==
  \/ /\ Next
     /\ Cardinality({i \in Invocations : thread_state'[i] # "unborn"}) <= MaxOptionInvocations
  \/ OptionsPanel

SpecOptions == Init /\ [][NextOptions]_vars

\* The state right after start_burn(s) from the initial state with /dev/sdb
\* and linux.iso selected, for every s of FoldScripts.
InitFold ==
  /\ status = St("Burning")
  /\ burn_progress = 0
  /\ progress_receiver = 1
  /\ operation_thread = 1
  /\ logs = <<>>
  /\ devices = <<SdbDev>>
  /\ selected_device = SdbDev.device
  /\ burn_options =
       [DefaultBurnOptions EXCEPT !.iso_path = "linux.iso", !.device_path = SdbDev.device]
  /\ pc = "poll"
  /\ thread_state = [i \in Invocations |-> IF i = 1 THEN "running" ELSE "unborn"]
  /\ \E s \in FoldScripts : script = [i \in Invocations |-> IF i = 1 THEN s ELSE <<>>]
  /\ sent = [i \in Invocations |-> 0]
  /\ config = [i \in Invocations |-> IF i = 1 THEN BurnConfig(burn_options) ELSE NoConfig]
  /\ chan = [i \in Invocations |-> <<>>]
  /\ folded = [i \in Invocations |-> <<>>]
  /\ edits = 0

\* The operation runs and the controller polls, with no click.
NextFold ==
  \/ Poll
  \/ RenderNoInput
  \/ \E i \in Invocations : ThreadSend(i)

FoldSpec == InitFold /\ [][NextFold]_vars

\* ------------------------------------------------------------------ claims
Started(i) == thread_state[i] # "unborn"
Alive(i) == thread_state[i] = "running"
TerminalPositions(q) == {k \in 1..Len(q) : IsTerminal(q[k])}
TerminalFolded(i) == TerminalPositions(folded[i]) # {}
AtRest == status.tag \in {"Idle", "Done", "Error"}
PollStep == pc = "poll" /\ pc' = "render"
SpawnStep(i) == thread_state[i] = "unborn" /\ thread_state'[i] = "running"

\* C1: in every reachable state at most one spawned operation thread is
\* alive (started and not yet ended).
C1_AtMostOneAlive == Cardinality({i \in Invocations : Alive(i)}) <= 1

\* C2: when the toolbar is rendered, a start request is rejected (the start
\* buttons are disabled) if and only if some started invocation's terminal
\* event has not yet been drained by the poll.
C2_RejectedIffUndrained ==
  pc = "render" =>
    ((~toolbar_is_idle) <=> (\E i \in Invocations : Started(i) /\ ~TerminalFolded(i)))

\* C3: as long as the terminal event of the invocation whose receiver is held
\* in progress_receiver has not been drained, no step replaces that receiver.
C3_ChannelUnaffected ==
  [][(progress_receiver # NoHandle /\ ~TerminalFolded(progress_receiver))
       => progress_receiver' = progress_receiver]_vars

\* C4: every step that spawns a thread leaves operation_thread set to its
\* handle, and operation_thread goes from Some to None only in a poll that
\* folds a terminal event of the invocation whose handle it held.
C4_ActiveFlag ==
  [][/\ \A i \in Invocations : SpawnStep(i) => operation_thread' = i
     /\ (operation_thread # NoHandle /\ operation_thread' # operation_thread) =>
          \/ \E i \in Invocations : SpawnStep(i)
          \/ /\ PollStep
             /\ operation_thread' = NoHandle
             /\ progress_receiver = operation_thread
             /\ \E k \in (Len(folded[operation_thread]) + 1)..Len(folded'[operation_thread]) :
                  IsTerminal(folded'[operation_thread][k])]_vars

\* C4 witness: a terminal event has been folded and the handle is cleared.
C4_Witness ==
  \E i \in Invocations : TerminalFolded(i) /\ progress_receiver = i /\ operation_thread = NoHandle

\* C5: once an invocation's thread has returned and nothing of it is left in
\* its channel, the events the poll loop folded for it contain exactly one
\* terminal event, and it is the last of them.
C5_ExactlyOneTerminalLast ==
  \A i \in Invocations :
    (thread_state[i] = "finished" /\ chan[i] = <<>>) =>
      TerminalPositions(folded[i]) = {Len(folded[i])} /\ folded[i] # <<>>

\* C6: a poll that runs after the thread of the held receiver has panicked
\* leaves the status Error(_) and operation_thread None.
C6_PanicBecomesFailed ==
  [][(PollStep /\ progress_receiver # NoHandle
        /\ thread_state[progress_receiver] = "panicked")
       => (status'.tag = "Error" /\ operation_thread' = NoHandle)]_vars

\* C7: scan_devices, start_burn and start_create_win_iso are invoked only in
\* a status at rest (Idle, Done or Error).
C7_OperationsOnlyAtRest ==
  [][(RenderMenuScan \/ RenderToolbarScan \/ RenderToolbarBurn \/ RenderToolbarWinIso)
       => AtRest]_vars

\* C8: in the terminal statuses Done and Error(_) the toolbar permits a new
\* start.
C8_StartFromTerminal ==
  (pc = "render" /\ status.tag \in {"Done", "Error"}) => toolbar_is_idle

BurnDoneScenario == <<Ev("StartingBurn"), EvWriting(50), EvWriting(100), Ev("Done")>>
BurnFailedScenario == <<Ev("StartingBurn"), EvError("device removed")>>
BurnVerifyScenario ==
  <<Ev("StartingBurn"), Ev("StartingVerification"), EvVerifying(100), Ev("Done")>>

\* The status an event is specified to set: a phase-start event its phase,
\* Done Done, Error(m) Error(m).
StatusTypes ==
  { "StartingBurn", "StartingVerification", "StartingBootableSetup",
    "StartingCreateWinIso", "StartingEject", "StartingErase", "Done", "Error" }
SpecifiedStatus(e) ==
  CASE e.type = "StartingBurn" -> St("Burning")
    [] e.type = "StartingVerification" -> St("Verifying")
    [] e.type = "StartingBootableSetup" -> St("SettingUpBootable")
    [] e.type = "StartingCreateWinIso" -> St("CreatingWinIso")
    [] e.type = "StartingEject" -> St("Ejecting")
    [] e.type = "StartingErase" -> St("Erasing")
    [] e.type = "Done" -> St("Done")
    [] e.type = "Error" -> StError(e.msg)

\* C10: after the events of a burn have been folded in arrival order up to
\* any point, the status is the one specified for the last status-setting
\* event folded (Burning, set by start_burn, when there is none), and the
\* thread handle is cleared exactly when a terminal event has been folded;
\* in particular the three scenarios end in Done with the handle cleared, in
\* Error("device removed"), and pass through Burning, Verifying and Done.
C10_FoldTrajectory ==
  LET q == folded[1]
      ks == {k \in 1..Len(q) : q[k].type \in StatusTypes}
      last == CHOOSE k \in ks : \A j \in ks : j <= k
  IN /\ status = (IF ks = {} THEN St("Burning") ELSE SpecifiedStatus(q[last]))
     /\ (operation_thread = NoHandle) <=> TerminalFolded(1)
     /\ q = BurnDoneScenario => (status = St("Done") /\ operation_thread = NoHandle)
     /\ q = BurnFailedScenario => status = StError("device removed")
     /\ q = SubSeq(BurnVerifyScenario, 1, 1) => status = St("Burning")
     /\ q \in {SubSeq(BurnVerifyScenario, 1, 2), SubSeq(BurnVerifyScenario, 1, 3)}
          => status = St("Verifying")
     /\ q = BurnVerifyScenario => status = St("Done")

\* C10 witness: the burn-then-verify scenario has been folded to its end.
C10_Witness ==
  folded[1] = BurnVerifyScenario /\ status = St("Done") /\ operation_thread = NoHandle

\* The events invocation i has produced so far.
Produced(i) == SubSeq(script[i], 1, sent[i])

\* C11: for every invocation, the events folded so far are a prefix of the
\* events its thread has produced so far: none skipped, duplicated or
\* reordered.
C11_FoldedPrefixOfProduced ==
  \A i \in Invocations :
    /\ Len(folded[i]) <= sent[i]
    /\ folded[i] = SubSeq(Produced(i), 1, Len(folded[i]))

\* C11 witness: two events of an invocation are folded and a third one is
\* produced but not folded yet.
C11_Witness ==
  \E i \in Invocations : Len(folded[i]) = 2 /\ sent[i] = 3 /\ chan[i] # <<>>

\* The texts of the Log events of q, in order.
LogTexts(q) ==
  LET logsOf == SelectSeq(q, LAMBDA e : e.type = "Log")
  IN [k \in 1..Len(logsOf) |-> logsOf[k].msg]

\* The texts of the lines of logs that Log events appended, in order.
LoggedTexts ==
  LET plain == SelectSeq(logs, LAMBDA l : l.prefix = "")
  IN [k \in 1..Len(plain) |-> plain[k].text]

\* The Log texts of invocations 1..n, in the order of the invocations.
RECURSIVE ProducedLogTexts(_)
ProducedLogTexts(n) ==
  IF n = 0 THEN <<>> ELSE ProducedLogTexts(n - 1) \o LogTexts(Produced(n))

\* C12: once every started thread has returned and nothing is left in a
\* channel, logs holds every Log text the invocations produced, once each
\* and in production order, and every invocation's terminal event has been
\* folded.
C12_NothingDropped ==
  (\A i \in Invocations : thread_state[i] \in {"unborn", "finished"} /\ chan[i] = <<>>)
    => /\ LoggedTexts = ProducedLogTexts(MaxInvocations)
       /\ \A i \in Invocations : Started(i) => TerminalFolded(i)

\* C13: once a terminal event of the held receiver's invocation has been
\* folded, the thread handle and the receiver are both released (None).
C13_ResourcesReleased ==
  \A i \in Invocations :
    TerminalFolded(i) => (operation_thread # i /\ progress_receiver # i)

\* C14: the poll is enabled whenever the controller is at the start of a
\* frame; it empties the held receiver's queue, folding all of it, and with
\* no receiver or an empty queue it leaves status, burn_progress, logs and
\* operation_thread unchanged.
C14_PollNeverBlocks ==
  /\ [](pc = "poll" => ENABLED Poll)
  /\ [][PollStep =>
          /\ progress_receiver # NoHandle =>
               /\ chan'[progress_receiver] = <<>>
               /\ folded'[progress_receiver] =
                    folded[progress_receiver] \o chan[progress_receiver]
          /\ (progress_receiver = NoHandle \/ chan[progress_receiver] = <<>>) =>
               UNCHANGED <<status, burn_progress, logs, operation_thread>>]_vars

\* C14 witness: a frame has polled a receiver whose sender is gone and has
\* folded everything the thread sent.
C14_Witness ==
  /\ pc = "render"
  /\ progress_receiver # NoHandle
  /\ thread_state[progress_receiver] = "finished"
  /\ chan[progress_receiver] = <<>>
  /\ folded[progress_receiver] = script[progress_receiver]

\* The status that folding q sets when the status before it is st.
StatusAfter(st, q) ==
  LET ks == {k \in 1..Len(q) : q[k].type \in StatusTypes}
      last == CHOOSE k \in ks : \A j \in ks : j <= k
  IN IF ks = {} THEN st ELSE SpecifiedStatus(q[last])

\* The status start_burn / start_create_win_iso set for invocation i.
StartStatus(i) ==
  IF config[i].kind = "burn" THEN St("Burning") ELSE St("CreatingWinIso")

\* C15 (as claimed): the status is a function of the event prefix folded so
\* far for the held receiver: the one folding that prefix yields, whatever
\* user actions occurred in between.
C15_StatusFunctionOfPrefix ==
  progress_receiver # NoHandle =>
    status = StatusAfter(StartStatus(progress_receiver), folded[progress_receiver])

\* C15 (amended): a poll sets the status to a function of the status before
\* it and of the events it folds; apart from polls only a scan and a start
\* change the status (option edits, Clear, selections and Stop never do).
C15_StatusChanges ==
  [][/\ PollStep =>
          status' = StatusAfter(status, IF progress_receiver = NoHandle
                                          THEN <<>> ELSE chan[progress_receiver])
     /\ status' # status =>
          \/ PollStep
          \/ RenderMenuScan \/ RenderToolbarScan
          \/ \E i \in Invocations : SpawnStep(i)]_vars

\* C15 witness: after an option edit and a Clear the status is still the one
\* the folded events of the finished operation set.
C15_Witness ==
  /\ edits > 0
  /\ progress_receiver # NoHandle
  /\ folded[progress_receiver] = script[progress_receiver]
  /\ status = StError("device removed")
  /\ devices = <<>> /\ burn_options.device_path # ""

\* C16: a poll that folds progress events only (Writing(p), Verifying(p))
\* leaves status, logs and operation_thread unchanged and sets burn_progress
\* to the last p, in whatever status they arrive.
C16_ProgressOnlyProgress ==
  [][(/\ PollStep
      /\ progress_receiver # NoHandle
      /\ chan[progress_receiver] # <<>>
      /\ \A k \in 1..Len(chan[progress_receiver]) :
           chan[progress_receiver][k].type \in {"Writing", "Verifying"})
       => /\ UNCHANGED <<status, logs, operation_thread>>
          /\ burn_progress' = chan[progress_receiver][Len(chan[progress_receiver])].p]_vars

\* C16 witness: a Verifying(1.0) event has been folded in status Erasing.
C16_Witness ==
  /\ Len(folded[1]) >= 2
  /\ folded[1][Len(folded[1])] = EvVerifying(100)
  /\ status = St("Erasing")
  /\ burn_progress = 100
  /\ operation_thread = 1

\* C17: the options a burn thread is spawned with are burn_options at that
\* moment with device_path set to the selected device; no later step changes
\* the configuration of a started invocation, and no step of a thread
\* changes the controller's burn_options.
C17_ConfigSnapshot ==
  [][/\ \A i \in Invocations :
          (SpawnStep(i) /\ config'[i].kind = "burn") =>
            /\ selected_device # NoDevice
            /\ config'[i].options = [burn_options EXCEPT !.device_path = selected_device]
     /\ \A i \in Invocations : Started(i) => config'[i] = config[i]
     /\ pc' = pc => burn_options' = burn_options]_vars

\* C17 witness: a burn is running with the options of its start while the
\* controller's options have been edited since.
C17_Witness ==
  \E i \in Invocations :
    /\ config[i].kind = "burn"
    /\ Alive(i)
    /\ edits > 0
    /\ burn_options # config[i].options
    /\ burn_options.device_path = config[i].options.device_path
    /\ burn_options.iso_path = config[i].options.iso_path

ProgressTypes == {"Writing", "Verifying"}

\* Position of the last progress event of q (0 if q has none).
LastProgress(q) ==
  LET ks == {k \in 1..Len(q) : q[k].type \in ProgressTypes}
  IN IF ks = {} THEN 0 ELSE CHOOSE k \in ks : \A j \in ks : j <= k

\* The producer's contract: per phase, the fractions of q are non-decreasing
\* in emission order and lie in [0, 1] (hundredths: 0..100).
PhaseMonotone(q) ==
  /\ \A k \in 1..Len(q) : q[k].type \in ProgressTypes => q[k].p \in 0..100
  /\ \A j, k \in 1..Len(q) :
       (j < k /\ q[j].type \in ProgressTypes /\ q[j].type = q[k].type)
         => q[j].p <= q[k].p

\* C18: burn_progress always lies in [0, 1]; and when the thread's fractions
\* are non-decreasing per phase, each poll that folds a progress event leaves
\* in burn_progress the fraction of the last one folded, which is no smaller
\* than any fraction of the same phase folded before it in that invocation.
C18_ProgressBounded ==
  /\ [](burn_progress \in 0..100)
  /\ [][(/\ PollStep
         /\ progress_receiver # NoHandle
         /\ PhaseMonotone(script[progress_receiver]))
          => LET q == folded'[progress_receiver]
                 n == LastProgress(q)
             IN n > Len(folded[progress_receiver]) =>
                  /\ burn_progress' = q[n].p
                  /\ \A k \in 1..n : q[k].type = q[n].type => q[k].p <= burn_progress']_vars

\* C18 witness: Writing(0.5) and, in a later poll, Writing(1.0) have been
\* folded, with a Verifying event between them.
C18_Witness ==
  /\ pc = "render"
  /\ folded[1] = <<EvWriting(50), EvVerifying(100), EvWriting(100)>>
  /\ chan[1] = <<>>
  /\ burn_progress = 100

\* C19: clicking Stop leaves status, progress_receiver, operation_thread,
\* burn_progress and logs (and the thread) unchanged; a running thread ends
\* only by a step of its own (after sending its terminal event, or by
\* panicking), and no step of the controller changes a running thread's
\* position or configuration.
C19_NotAbortable ==
  [][/\ RenderToolbarStop =>
          UNCHANGED <<status, progress_receiver, operation_thread, burn_progress,
                      logs, thread_state, sent, chan>>
     /\ \A i \in Invocations :
          (Alive(i) /\ thread_state'[i] # "running") =>
            /\ pc' = pc
            /\ UNCHANGED ctl
            /\ thread_state'[i] = "finished" =>
                 (sent'[i] = Len(script[i]) /\ IsTerminal(script[i][sent'[i]]))
     /\ \A i \in Invocations :
          (Alive(i) /\ pc' # pc) =>
            /\ thread_state'[i] = thread_state[i]
            /\ sent'[i] = sent[i]
            /\ script'[i] = script[i]
            /\ config'[i] = config[i]]_vars

\* C19 witness: a frame has ended with the Stop button enabled, and the
\* operation is still running, with events folded and events yet to send.
C19_Witness ==
  /\ pc = "poll"
  /\ status.tag \in RunningTags
  /\ operation_thread # NoHandle
  /\ progress_receiver = operation_thread
  /\ Alive(operation_thread)
  /\ folded[operation_thread] # <<>>
  /\ sent[operation_thread] < Len(script[operation_thread])

\* C20 (repaint part): at the end of every frame in which an operation is
\* active (operation_thread is Some) the controller has requested a repaint,
\* i.e. is_idle() was false.
C20_RepaintWhileActive ==
  (pc = "poll" /\ operation_thread # NoHandle) => ~is_idle

\* C21: at the end of every tick operation_thread is Some if and only if the
\* status is a running phase.
C21_ActiveIffRunning ==
  pc = "poll" => (operation_thread # NoHandle <=> status.tag \in RunningTags)

\* The invocation started last (NoHandle if none has been started).
Newest == NextId - 1

\* C22: the receiver held is always that of the newest invocation and is
\* replaced only by a start; an invocation whose receiver is no longer held
\* never has another event folded; and a poll changes status, burn_progress
\* or operation_thread only by folding events of the held receiver.
C22_OnlyNewestFolded ==
  /\ [](progress_receiver \in {NoHandle, Newest})
  /\ [][/\ progress_receiver' # progress_receiver =>
             \E i \in Invocations : SpawnStep(i) /\ progress_receiver' = i
        /\ \A i \in Invocations :
             (Started(i) /\ progress_receiver # i) => folded'[i] = folded[i]
        /\ (PollStep /\ <<status, burn_progress, operation_thread>>'
                          # <<status, burn_progress, operation_thread>>)
             => /\ progress_receiver # NoHandle
                /\ folded'[progress_receiver] # folded[progress_receiver]]_vars

\* C22 witness: invocation 1 was superseded before all it produced was
\* folded, it has since sent the rest, and invocation 2 has been folded to
\* its terminal event.
C22_Witness ==
  /\ progress_receiver = 2
  /\ sent[1] = Len(script[1])
  /\ Len(folded[1]) < sent[1]
  /\ folded[2] = script[2]
  /\ chan[1] = <<>>

\* C23: in every reachable state selected_device, when set, is the
\* identifier of an entry of the devices list.
C23_SelectionListed ==
  selected_device # NoDevice =>
    \E k \in 1..Len(devices) : devices[k].device = selected_device

\* C24: start_burn with no selected device, and start_create_win_iso with a
\* cancelled dialog, leave status, progress_receiver, operation_thread,
\* burn_progress, the threads and the channels unchanged; a thread is spawned
\* only with its inputs present, and a receiver or a handle is stored only
\* by a step that spawns a thread.
C24_MissingInputNoOp ==
  [][/\ \A source \in FolderDialogResults, output \in SaveDialogResults, s \in WinIsoScripts :
          (/\ EndFrame
           /\ source = Cancelled \/ output = Cancelled
           /\ start_create_win_iso(source, output, s))
            => UNCHANGED <<status, progress_receiver, operation_thread, burn_progress,
                           thread_state, chan>>
     /\ \A s \in BurnScripts :
          (EndFrame /\ selected_device = NoDevice /\ start_burn(s))
            => UNCHANGED <<status, progress_receiver, operation_thread, burn_progress,
                           thread_state, chan>>
     /\ \A i \in Invocations :
          SpawnStep(i) =>
            IF config'[i].kind = "burn"
              THEN selected_device # NoDevice
              ELSE config'[i].source # Cancelled /\ config'[i].output # Cancelled
     /\ (\/ progress_receiver' # progress_receiver
         \/ (operation_thread' # operation_thread /\ operation_thread' # NoHandle))
          => \E i \in Invocations : SpawnStep(i)]_vars

\* C24 witness: a frame has ended with the start buttons' inputs missing (no
\* device selected, as after a cancelled dialog) and nothing started: no
\* thread, no receiver, no handle, progress 0.
C24_Witness ==
  /\ pc = "poll"
  /\ toolbar_is_idle
  /\ selected_device = NoDevice
  /\ devices # <<>>
  /\ burn_options.iso_path # ""
  /\ \A i \in Invocations : ~Started(i)
  /\ progress_receiver = NoHandle /\ operation_thread = NoHandle
  /\ burn_progress = 0

====
